---- MODULE Spec2Model ----
(***************************************************************************)
(* Model of families/seth/rpc/src/calls/account.rs: the Ethereum-style     *)
(* account query handlers of the seth JSON-RPC server, their parameter     *)
(* validators and the block key resolver.                                  *)
(*                                                                         *)
(* A Rust String is modelled as the sequence of its characters; every      *)
(* character has a UTF-8 width, String::len is the number of BYTES, and a  *)
(* slice &s[i..] panics unless byte offset i is a character boundary.      *)
(***************************************************************************)
EXTENDS Integers, Sequences, FiniteSets, TLC

VARIABLES
    method,       \* name of the function last invoked ("" before any call)
    params,       \* the arguments it was invoked with
    clientCalls,  \* the ledger client invocations made by that invocation
    log,          \* what that invocation wrote with error!()
    result        \* what that invocation returned (or that it panicked)

vars == <<method, params, clientCalls, log, result>>

----------------------------------------------------------------------------
(* Bounds of the checked inputs *)

\* addresses carry AddressLen - 2 - FillSlack .. AddressLen - 2 + FillSlack fill characters
FillSlack == 1
\* storage positions carry 0 .. MaxPosFill fill characters after their head
MaxPosFill == 2
\* the validators are applied to strings whose head has up to MaxHeadLen characters
MaxHeadLen == 2
\* the validators are applied to short strings of up to MaxShortFill fill characters
MaxShortFill == 3

----------------------------------------------------------------------------
(* Rust strings *)

\* the one non-ASCII character of the inputs: e-acute, two bytes in UTF-8
EAcute == "U+00E9"

Utf8Width(c) == IF c = EAcute THEN 2 ELSE 1

\* the number of bytes of the first k characters of s
RECURSIVE ByteOffset(_, _)
ByteOffset(s, k) == IF k = 0 THEN 0 ELSE ByteOffset(s, k - 1) + Utf8Width(s[k])

\* String::len: the length in bytes
len(s) == ByteOffset(s, Len(s))

Min(a, b) == IF a < b THEN a ELSE b

\* str::is_char_boundary: byte offset i is where a character of s starts, or
\* the end of s (a character has at least one byte, so it is one of the first i)
is_char_boundary(s, i) == \E k \in 0..Min(i, Len(s)) : ByteOffset(s, k) = i

Ok(v) == [tag |-> "Ok", value |-> v]
Err(e) == [tag |-> "Err", error |-> e]
\* the function did not return: the thread unwound
Panic == [tag |-> "Panic"]

\* &s[i..]: the suffix from byte offset i; panics when i is not a character
\* boundary of s (which includes i > len(s))
slice_from(s, i) ==
    IF is_char_boundary(s, i)
    THEN LET k == CHOOSE j \in 0..Min(i, Len(s)) : ByteOffset(s, j) = i
         IN  Ok(SubSeq(s, k + 1, Len(s)))
    ELSE Panic

Fill(n) == [i \in 1..n |-> "a"]

----------------------------------------------------------------------------
(* Errors *)

\* a message: a format string and the values formatted into it
Msg(fmt, args) == [fmt |-> fmt, args |-> args]

invalid_params(msg) == [kind |-> "InvalidParams", message |-> msg]
internal_error == [kind |-> "InternalError", message |-> Msg("Internal error", <<>>)]
not_implemented == [kind |-> "NotImplemented", message |-> Msg("Method not implemented", <<>>)]

ErrorKinds == {"InvalidParams", "NotImplemented", "InternalError"}

----------------------------------------------------------------------------
(* Block keys *)

HexChars == <<"0", "1", "2", "3", "4", "5", "6", "7", "8", "9", "a", "b", "c", "d", "e", "f">>

IsHexChar(c) == \E i \in 1..Len(HexChars) : HexChars[i] = c
HexVal(c) == (CHOOSE i \in 1..Len(HexChars) : HexChars[i] = c) - 1

RECURSIVE HexToNum(_)
HexToNum(s) == IF s = <<>> THEN 0 ELSE HexToNum(SubSeq(s, 1, Len(s) - 1)) * 16 + HexVal(s[Len(s)])

S_latest == <<"l", "a", "t", "e", "s", "t">>
S_pending == <<"p", "e", "n", "d", "i", "n", "g">>
S_earliest == <<"e", "a", "r", "l", "i", "e", "s", "t">>
S_0x == <<"0", "x">>

\* block.parse(): a tag keyword or a 0x-prefixed hex quantity
BlockKeyParse(block) ==
    IF block = S_latest THEN Ok([key |-> "Latest"])
    ELSE IF block = S_pending THEN Ok([key |-> "Pending"])
    ELSE IF block = S_earliest THEN Err("Unsupported")
    ELSE IF /\ Len(block) > 2
            /\ SubSeq(block, 1, 2) = S_0x
            /\ \A i \in 3..Len(block) : IsHexChar(block[i])
         THEN Ok([key |-> "Number", number |-> HexToNum(SubSeq(block, 3, Len(block)))])
         ELSE Err("Invalid")

\* validate_block_key, but an unsupported mode falls back to the latest block
validate_block_key_falls_back(block) ==
    LET parsed == BlockKeyParse(block) IN
    IF parsed.tag = "Ok" THEN Ok(parsed.value)
    ELSE IF parsed.error = "Invalid"
         THEN Err(invalid_params(Msg("Failed to parse block number", <<>>)))
         ELSE Ok([key |-> "Latest"])

validate_block_key(block) ==
    LET parsed == BlockKeyParse(block) IN
    IF parsed.tag = "Ok" THEN Ok(parsed.value)
    ELSE IF parsed.error = "Invalid"
         THEN Err(invalid_params(Msg("Failed to parse block number", <<>>)))
         ELSE Err(not_implemented)

----------------------------------------------------------------------------
(* Parameter validators *)

AddressLen == 42
PrefixLen == 2
MinStorageLen == 4

validate_account_address(address) ==
    IF len(address) # AddressLen
    THEN Err(invalid_params(Msg("Invalid address length: {} != {}",
                                <<len(address), AddressLen>>)))
    ELSE slice_from(address, PrefixLen)

validate_storage_address(address) ==
    IF len(address) < MinStorageLen \/ len(address) % 2 # 0
    THEN Err(invalid_params(Msg("Invalid storage position: {}", <<address>>)))
    ELSE slice_from(address, PrefixLen)

----------------------------------------------------------------------------
(* JSON values and the hex codec *)

Null == [type |-> "Null"]
String(s) == [type |-> "String", str |-> s]
Number(n) == [type |-> "Number", num |-> n]

RECURSIVE to_hex(_)
to_hex(n) == IF n < 16 THEN <<HexChars[n + 1]>>
             ELSE to_hex(n \div 16) \o <<HexChars[(n % 16) + 1]>>

\* 0x, then the lowercase hex digits of n without leading zeros
num_to_hex(n) == String(S_0x \o to_hex(n))

\* two lowercase hex digits per byte, no prefix
RECURSIVE bytes_to_hex_str(_)
bytes_to_hex_str(bytes) ==
    IF bytes = <<>> THEN <<>>
    ELSE <<HexChars[(Head(bytes) \div 16) + 1], HexChars[(Head(bytes) % 16) + 1]>>
         \o bytes_to_hex_str(Tail(bytes))

hex_prefix(s) == String(S_0x \o s)

----------------------------------------------------------------------------
(* The ledger client *)

Accounts == { [balance |-> 0, code |-> <<>>],
              [balance |-> 4106, code |-> <<0, 171, 15>>] }

StoredValues == { <<>>, <<0, 171, 15>> }

FailureTexts == {"timeout", "connection refused"}

Failures == {[tag |-> "Err", text |-> x] : x \in FailureTexts}

\* what get_account may answer
AccountReplies ==
    {[tag |-> "Some", value |-> a] : a \in Accounts} \cup {[tag |-> "None"]} \cup Failures

\* what the client's get_storage_at may answer
StorageReplies ==
    {[tag |-> "Some", value |-> v] : v \in StoredValues} \cup {[tag |-> "None"]} \cup Failures

\* one invocation of the client: client.get_storage_at(account, slot, at) and
\* client.get_account(account, at), with the answer it gave
StorageQuery(a, p, k, r) ==
    [query |-> "get_storage_at", account |-> a, slot |-> p, at |-> k, answer |-> r]

AccountQuery(a, k, r) ==
    [query |-> "get_account", account |-> a, at |-> k, answer |-> r]

----------------------------------------------------------------------------
(* Method handlers *)

\* params.parse() into a tuple of n Strings: the parameters must be an array
\* of exactly n JSON strings (parameters given by name, or none at all, fail
\* like the empty array)
parse_params(ps, n) ==
    IF Len(ps) = n /\ \A i \in 1..n : ps[i].type = "String"
    THEN Ok([i \in 1..n |-> ps[i].str])
    ELSE Err("shape")

\* what one invocation did: the value returned, the client invocations, the log
Ret(res, calls, logged) == [res |-> res, calls |-> calls, logged |-> logged]

AccountSchema == Msg("Takes [address: DATA(20), block: QUANTITY|TAG]", <<>>)
StorageSchema == Msg("Takes [address: DATA(20), position: QUANTITY, block: QUANTITY|TAG]", <<>>)

\* get_balance, but the client's failure text is put into the returned error
get_balance_leaks_failure(ps) ==
    LET parsed == parse_params(ps, 2) IN
    IF parsed.tag # "Ok" THEN {Ret(Err(invalid_params(AccountSchema)), <<>>, <<>>)}
    ELSE
    LET key == validate_block_key(parsed.value[2]) IN
    IF key.tag # "Ok" THEN {Ret(key, <<>>, <<>>)}
    ELSE
    LET address == validate_account_address(parsed.value[1]) IN
    IF address.tag # "Ok" THEN {Ret(address, <<>>, <<>>)}
    ELSE
    { LET invocation == AccountQuery(address.value, key.value, reply)
      IN  CASE reply.tag = "Some" -> Ret(Ok(num_to_hex(reply.value.balance)), <<invocation>>, <<>>)
            [] reply.tag = "None" -> Ret(Ok(Null), <<invocation>>, <<>>)
            [] reply.tag = "Err"  ->
                   Ret(Err([kind |-> "InternalError", message |-> Msg(reply.text, <<>>)]),
                       <<invocation>>, <<reply.text>>)
      : reply \in AccountReplies }

\* get_balance, but a failed query is tried a second time
get_balance_retries(ps) ==
    LET parsed == parse_params(ps, 2) IN
    IF parsed.tag # "Ok" THEN {Ret(Err(invalid_params(AccountSchema)), <<>>, <<>>)}
    ELSE
    LET key == validate_block_key(parsed.value[2]) IN
    IF key.tag # "Ok" THEN {Ret(key, <<>>, <<>>)}
    ELSE
    LET address == validate_account_address(parsed.value[1]) IN
    IF address.tag # "Ok" THEN {Ret(address, <<>>, <<>>)}
    ELSE
    { LET invocation == AccountQuery(address.value, key.value, replies[1])
          again == AccountQuery(address.value, key.value, replies[2])
          asked == IF replies[1].tag = "Err" THEN <<invocation, again>> ELSE <<invocation>>
          reply == asked[Len(asked)].answer
      IN  CASE reply.tag = "Some" -> Ret(Ok(num_to_hex(reply.value.balance)), asked, <<>>)
            [] reply.tag = "None" -> Ret(Ok(Null), asked, <<>>)
            [] reply.tag = "Err"  -> Ret(Err(internal_error), asked, <<reply.text>>)
      : replies \in AccountReplies \X AccountReplies }

\* get_balance, get_storage_at and get_code take the parameters and yield the set
\* of ways the invocation can go: one for each answer the ledger client can give
\* when it is asked, and a single one when it is not asked
get_balance(ps) ==
    LET parsed == parse_params(ps, 2) IN
    IF parsed.tag # "Ok" THEN {Ret(Err(invalid_params(AccountSchema)), <<>>, <<>>)}
    ELSE
    LET key == validate_block_key(parsed.value[2]) IN
    IF key.tag # "Ok" THEN {Ret(key, <<>>, <<>>)}
    ELSE
    LET address == validate_account_address(parsed.value[1]) IN
    IF address.tag # "Ok" THEN {Ret(address, <<>>, <<>>)}
    ELSE
    { LET invocation == AccountQuery(address.value, key.value, reply)
      IN  CASE reply.tag = "Some" -> Ret(Ok(num_to_hex(reply.value.balance)), <<invocation>>, <<>>)
            [] reply.tag = "None" -> Ret(Ok(Null), <<invocation>>, <<>>)
            [] reply.tag = "Err"  -> Ret(Err(internal_error), <<invocation>>, <<reply.text>>)
      : reply \in AccountReplies }

\* get_storage_at, but the position is validated only after the client was asked
get_storage_at_late_position_check(ps) ==
    LET parsed == parse_params(ps, 3) IN
    IF parsed.tag # "Ok" THEN {Ret(Err(invalid_params(StorageSchema)), <<>>, <<>>)}
    ELSE
    LET key == validate_block_key(parsed.value[3]) IN
    IF key.tag # "Ok" THEN {Ret(key, <<>>, <<>>)}
    ELSE
    LET account_address == validate_account_address(parsed.value[1]) IN
    IF account_address.tag # "Ok" THEN {Ret(account_address, <<>>, <<>>)}
    ELSE
    LET storage_address == validate_storage_address(parsed.value[2]) IN
    { LET invocation == StorageQuery(account_address.value, SubSeq(parsed.value[2], 3, Len(parsed.value[2])),
                                      key.value, reply)
      IN  IF storage_address.tag # "Ok" THEN Ret(storage_address, <<invocation>>, <<>>)
          ELSE
          CASE reply.tag = "Some" -> Ret(Ok(hex_prefix(bytes_to_hex_str(reply.value))), <<invocation>>, <<>>)
            [] reply.tag = "None" -> Ret(Ok(Null), <<invocation>>, <<>>)
            [] reply.tag = "Err"  -> Ret(Err(internal_error), <<invocation>>, <<reply.text>>)
      : reply \in StorageReplies }

\* get_storage_at, but the position is validated before the address
get_storage_at_position_first(ps) ==
    LET parsed == parse_params(ps, 3) IN
    IF parsed.tag # "Ok" THEN {Ret(Err(invalid_params(StorageSchema)), <<>>, <<>>)}
    ELSE
    LET key == validate_block_key(parsed.value[3]) IN
    IF key.tag # "Ok" THEN {Ret(key, <<>>, <<>>)}
    ELSE
    LET storage_address == validate_storage_address(parsed.value[2]) IN
    IF storage_address.tag # "Ok" THEN {Ret(storage_address, <<>>, <<>>)}
    ELSE
    LET account_address == validate_account_address(parsed.value[1]) IN
    IF account_address.tag # "Ok" THEN {Ret(account_address, <<>>, <<>>)}
    ELSE
    { LET invocation == StorageQuery(account_address.value, storage_address.value,
                                      key.value, reply)
      IN  CASE reply.tag = "Some" -> Ret(Ok(hex_prefix(bytes_to_hex_str(reply.value))), <<invocation>>, <<>>)
            [] reply.tag = "None" -> Ret(Ok(Null), <<invocation>>, <<>>)
            [] reply.tag = "Err"  -> Ret(Err(internal_error), <<invocation>>, <<reply.text>>)
      : reply \in StorageReplies }

get_storage_at(ps) ==
    LET parsed == parse_params(ps, 3) IN
    IF parsed.tag # "Ok" THEN {Ret(Err(invalid_params(StorageSchema)), <<>>, <<>>)}
    ELSE
    LET key == validate_block_key(parsed.value[3]) IN
    IF key.tag # "Ok" THEN {Ret(key, <<>>, <<>>)}
    ELSE
    LET account_address == validate_account_address(parsed.value[1]) IN
    IF account_address.tag # "Ok" THEN {Ret(account_address, <<>>, <<>>)}
    ELSE
    LET storage_address == validate_storage_address(parsed.value[2]) IN
    IF storage_address.tag # "Ok" THEN {Ret(storage_address, <<>>, <<>>)}
    ELSE
    { LET invocation == StorageQuery(account_address.value, storage_address.value,
                                      key.value, reply)
      IN  CASE reply.tag = "Some" -> Ret(Ok(hex_prefix(bytes_to_hex_str(reply.value))), <<invocation>>, <<>>)
            [] reply.tag = "None" -> Ret(Ok(Null), <<invocation>>, <<>>)
            [] reply.tag = "Err"  -> Ret(Err(internal_error), <<invocation>>, <<reply.text>>)
      : reply \in StorageReplies }

\* get_code, but an account that does not exist is reported as a failure
get_code_absent_is_error(ps) ==
    LET parsed == parse_params(ps, 2) IN
    IF parsed.tag # "Ok" THEN {Ret(Err(invalid_params(AccountSchema)), <<>>, <<>>)}
    ELSE
    LET key == validate_block_key(parsed.value[2]) IN
    IF key.tag # "Ok" THEN {Ret(key, <<>>, <<>>)}
    ELSE
    LET address == validate_account_address(parsed.value[1]) IN
    IF address.tag # "Ok" THEN {Ret(address, <<>>, <<>>)}
    ELSE
    { LET invocation == AccountQuery(address.value, key.value, reply)
      IN  CASE reply.tag = "Some" -> Ret(Ok(hex_prefix(bytes_to_hex_str(reply.value.code))), <<invocation>>, <<>>)
            [] reply.tag = "None" -> Ret(Err(internal_error), <<invocation>>, <<>>)
            [] reply.tag = "Err"  -> Ret(Err(internal_error), <<invocation>>, <<reply.text>>)
      : reply \in AccountReplies }

get_code(ps) ==
    LET parsed == parse_params(ps, 2) IN
    IF parsed.tag # "Ok" THEN {Ret(Err(invalid_params(AccountSchema)), <<>>, <<>>)}
    ELSE
    LET key == validate_block_key(parsed.value[2]) IN
    IF key.tag # "Ok" THEN {Ret(key, <<>>, <<>>)}
    ELSE
    LET address == validate_account_address(parsed.value[1]) IN
    IF address.tag # "Ok" THEN {Ret(address, <<>>, <<>>)}
    ELSE
    { LET invocation == AccountQuery(address.value, key.value, reply)
      IN  CASE reply.tag = "Some" -> Ret(Ok(hex_prefix(bytes_to_hex_str(reply.value.code))), <<invocation>>, <<>>)
            [] reply.tag = "None" -> Ret(Ok(Null), <<invocation>>, <<>>)
            [] reply.tag = "Err"  -> Ret(Err(internal_error), <<invocation>>, <<reply.text>>)
      : reply \in AccountReplies }

\* sign, but registered with the body of get_balance
sign_answers_balance(ps) == get_balance(ps)

sign(ps) == {Ret(Err(not_implemented), <<>>, <<>>)}

call(ps) == {Ret(Err(not_implemented), <<>>, <<>>)}

accounts(ps) == {Ret(Err(not_implemented), <<>>, <<>>)}

\* the name -> handler table, in registration order
get_method_list ==
    <<"eth_getBalance", "eth_getStorageAt", "eth_getCode",
      "eth_sign", "eth_call", "eth_accounts">>

\* the dispatcher's lookup of a registered name, applied
Handle(name, ps) ==
    CASE name = "eth_getBalance"   -> get_balance(ps)
      [] name = "eth_getStorageAt" -> get_storage_at(ps)
      [] name = "eth_getCode"      -> get_code(ps)
      [] name = "eth_sign"         -> sign(ps)
      [] name = "eth_call"         -> call(ps)
      [] name = "eth_accounts"     -> accounts(ps)

----------------------------------------------------------------------------
(* The inputs *)

\* heads of the request strings: the 0x prefix, a head whose second character
\* straddles byte offset 2, and a head whose first character ends at it
RequestHeads == {S_0x, <<"0", EAcute>>, <<EAcute, "x">>}

Addresses ==
    {h \o Fill(n) : h \in RequestHeads,
                    n \in (AddressLen - PrefixLen - FillSlack)..(AddressLen - PrefixLen + FillSlack)}

Positions == {h \o Fill(n) : h \in RequestHeads, n \in 0..MaxPosFill}

Blocks == {S_latest, S_pending, S_earliest, <<"0", "x", "1", "f">>, <<"z", "z">>}

Pairs == {<<String(a), String(b)>> : a \in Addresses, b \in Blocks}

Triples == {<<String(a), String(p), String(b)>> : a \in Addresses, p \in Positions, b \in Blocks}

GoodAddress == S_0x \o Fill(AddressLen - PrefixLen)

\* parameters of neither shape, and a few of each shape
OtherParams ==
    { <<>>,
      <<String(GoodAddress)>>,
      <<String(GoodAddress), Null>>,
      <<Number(1), String(S_latest)>>,
      <<String(GoodAddress), String(S_0x \o Fill(2)), Number(1)>>,
      <<String(GoodAddress), String(S_latest)>>,
      <<String(GoodAddress), String(S_0x \o Fill(2)), String(S_latest)>>,
      <<String(GoodAddress), String(S_0x \o Fill(2)), String(S_latest), String(S_latest)>> }

----------------------------------------------------------------------------
(* The server: one action per registered method *)

Init ==
    /\ method = ""
    /\ params = <<>>
    /\ clientCalls = <<>>
    /\ log = <<>>
    /\ result = [tag |-> "None"]

GetBalance ==
    \E ps \in Pairs \cup OtherParams :
        \E r \in Handle("eth_getBalance", ps) :
            /\ method' = "eth_getBalance"
            /\ params' = ps
            /\ clientCalls' = r.calls
            /\ log' = r.logged
            /\ result' = r.res

GetStorageAt ==
    \E ps \in Triples \cup OtherParams :
        \E r \in Handle("eth_getStorageAt", ps) :
            /\ method' = "eth_getStorageAt"
            /\ params' = ps
            /\ clientCalls' = r.calls
            /\ log' = r.logged
            /\ result' = r.res

GetCode ==
    \E ps \in Pairs \cup OtherParams :
        \E r \in Handle("eth_getCode", ps) :
            /\ method' = "eth_getCode"
            /\ params' = ps
            /\ clientCalls' = r.calls
            /\ log' = r.logged
            /\ result' = r.res

Sign ==
    \E ps \in Pairs \cup OtherParams :
        \E r \in Handle("eth_sign", ps) :
            /\ method' = "eth_sign"
            /\ params' = ps
            /\ clientCalls' = r.calls
            /\ log' = r.logged
            /\ result' = r.res

Call ==
    \E ps \in Pairs \cup OtherParams :
        \E r \in Handle("eth_call", ps) :
            /\ method' = "eth_call"
            /\ params' = ps
            /\ clientCalls' = r.calls
            /\ log' = r.logged
            /\ result' = r.res

AccountsList ==
    \E ps \in Pairs \cup OtherParams :
        \E r \in Handle("eth_accounts", ps) :
            /\ method' = "eth_accounts"
            /\ params' = ps
            /\ clientCalls' = r.calls
            /\ log' = r.logged
            /\ result' = r.res

Next == GetBalance \/ GetStorageAt \/ GetCode \/ Sign \/ Call \/ AccountsList

Spec == Init /\ [][Next]_vars

----------------------------------------------------------------------------
(* The validators and the block key resolver on their own: each is a pure   *)
(* function, applied here to strings of every length around its limits      *)

Alphabet == {"0", "x", EAcute}

Heads == UNION {[1..k -> Alphabet] : k \in 0..MaxHeadLen}

TestFills ==
    (0..MaxShortFill)
        \cup ((AddressLen - PrefixLen - FillSlack)..(AddressLen - PrefixLen + FillSlack))

TestStrings == {h \o Fill(n) : h \in Heads, n \in TestFills}

BlockStrings ==
    Blocks \cup {<<>>, S_0x, <<"0", "x", "0">>, <<"0", "x", "g">>, <<"1", "f">>,
                 <<"l", "a", "t", "e">>}

ValidateBlockKey ==
    \E block \in BlockStrings :
        /\ method' = "validate_block_key"
        /\ params' = <<block>>
        /\ result' = validate_block_key(block)
        /\ UNCHANGED <<clientCalls, log>>

ValidateAccountAddress ==
    \E address \in TestStrings :
        /\ method' = "validate_account_address"
        /\ params' = <<address>>
        /\ result' = validate_account_address(address)
        /\ UNCHANGED <<clientCalls, log>>

ValidateStorageAddress ==
    \E address \in TestStrings :
        /\ method' = "validate_storage_address"
        /\ params' = <<address>>
        /\ result' = validate_storage_address(address)
        /\ UNCHANGED <<clientCalls, log>>

NextValidators == ValidateBlockKey \/ ValidateAccountAddress \/ ValidateStorageAddress

SpecValidators == Init /\ [][NextValidators]_vars

----------------------------------------------------------------------------
(* Properties of the validators (checked under SpecValidators) *)

\* v is s without its first two bytes: the suffix of s that starts at byte
\* offset 2 (for ASCII strings, s without its first two characters)
IsSuffixFrom2(s, v) ==
    \E k \in 0..Len(s) : ByteOffset(s, k) = PrefixLen /\ v = SubSeq(s, k + 1, Len(s))

IsInvalidParams(r) == r.tag = "Err" /\ r.error.kind = "InvalidParams"

\* C4: validateAccountAddress(a) fails with InvalidParams when length(a) # 42,
\* and when length(a) = 42 it succeeds and returns a without its first two
\* characters, whatever the characters of a are
C4_AccountAddress ==
    method = "validate_account_address" =>
        LET a == params[1] IN
        IF len(a) # AddressLen
        THEN IsInvalidParams(result)
        ELSE result.tag = "Ok" /\ IsSuffixFrom2(a, result.value)

\* C5: validateStorageAddress(p) fails with InvalidParams when length(p) < 4 or
\* length(p) is odd, and otherwise succeeds and returns p without its first two
\* characters, a non-empty value of even length
C5_StorageAddress ==
    method = "validate_storage_address" =>
        LET p == params[1] IN
        IF len(p) < MinStorageLen \/ len(p) % 2 # 0
        THEN IsInvalidParams(result)
        ELSE /\ result.tag = "Ok"
             /\ IsSuffixFrom2(p, result.value)
             /\ len(result.value) > 0
             /\ len(result.value) % 2 = 0

\* C6: validate_block_key gives every string exactly one of three outcomes: the
\* parsed BlockKey when parsing succeeds, InvalidParams "Failed to parse block
\* number" when the string is malformed, NotImplemented when it names an
\* unsupported mode; a failure to resolve never yields a BlockKey
C6_BlockKeyOutcomes ==
    method = "validate_block_key" =>
        LET parsed == BlockKeyParse(params[1]) IN
        /\ result.tag \in {"Ok", "Err"}
        /\ parsed.tag = "Ok" => result = Ok(parsed.value)
        /\ (parsed.tag = "Err" /\ parsed.error = "Invalid") =>
               /\ result.tag = "Err"
               /\ result.error.kind = "InvalidParams"
               /\ result.error.message = Msg("Failed to parse block number", <<>>)
        /\ (parsed.tag = "Err" /\ parsed.error = "Unsupported") =>
               /\ result.tag = "Err"
               /\ result.error.kind = "NotImplemented"
        /\ parsed.tag = "Err" => result.tag = "Err"

\* the unsupported tag was resolved, to NotImplemented
C6_Witness ==
    /\ method = "validate_block_key"
    /\ params = <<S_earliest>>
    /\ result = Err(not_implemented)

----------------------------------------------------------------------------
(* Properties of the handlers (checked under Spec) *)

Implemented == {"eth_getBalance", "eth_getStorageAt", "eth_getCode"}
Stubs == {"eth_sign", "eth_call", "eth_accounts"}

Arity(name) == IF name = "eth_getStorageAt" THEN 3 ELSE 2

SchemaOf(name) == IF name = "eth_getStorageAt" THEN StorageSchema ELSE AccountSchema

\* the request of the current state, read as the handler reads it
WellShaped == parse_params(params, Arity(method)).tag = "Ok"
ReqAddress == params[1].str
ReqPosition == params[2].str
ReqBlock == params[Arity(method)].str

\* every check of the handler returned Ok
ValidationPasses ==
    /\ WellShaped
    /\ validate_block_key(ReqBlock).tag = "Ok"
    /\ validate_account_address(ReqAddress).tag = "Ok"
    /\ method = "eth_getStorageAt" => validate_storage_address(ReqPosition).tag = "Ok"

\* C1: when an implemented handler returns InvalidParams or NotImplemented,
\* the ledger client has not been invoked during that request
C1_RejectedWithoutClient ==
    (/\ method \in Implemented
     /\ result.tag = "Err"
     /\ result.error.kind \in {"InvalidParams", "NotImplemented"})
        => clientCalls = <<>>

\* eth_getStorageAt with a 3-byte position, everything else valid, was rejected
C1_Witness ==
    /\ method = "eth_getStorageAt"
    /\ WellShaped
    /\ validate_block_key(ReqBlock).tag = "Ok"
    /\ validate_account_address(ReqAddress).tag = "Ok"
    /\ len(ReqPosition) = 3
    /\ IsInvalidParams(result)
    /\ clientCalls = <<>>

ClientFailed == clientCalls # <<>> /\ clientCalls[Len(clientCalls)].answer.tag = "Err"

\* C2: if the ledger client call fails, the handler returns InternalError, and
\* every run of the same request in which the client fails, with whatever
\* failure text, returns the same value
C2_OpaqueFailure ==
    (method \in Implemented /\ ClientFailed) =>
        /\ result.tag = "Err"
        /\ result.error.kind = "InternalError"
        /\ \A o \in Handle(method, params) :
               (o.calls # <<>> /\ o.calls[Len(o.calls)].answer.tag = "Err")
                   => o.res = result

\* a client failure happened, and a run with another failure text exists
C2_Witness ==
    /\ method = "eth_getBalance"
    /\ ClientFailed
    /\ result.tag = "Err"
    /\ \E o \in Handle(method, params) :
           /\ o.calls # <<>>
           /\ o.calls[1].answer.tag = "Err"
           /\ o.calls[1].answer.text # clientCalls[1].answer.text

\* C3: eth_sign, eth_call and eth_accounts always return NotImplemented and
\* never invoke the ledger client
C3_StubsNotImplemented ==
    method \in Stubs =>
        /\ result.tag = "Err"
        /\ result.error.kind = "NotImplemented"
        /\ clientCalls = <<>>

\* eth_sign was invoked with a request eth_getBalance would have answered
C3_Witness ==
    /\ method = "eth_sign"
    /\ params = <<String(GoodAddress), String(S_latest)>>
    /\ result = Err(not_implemented)

\* the bytes that 2 hex digits per byte stand for
RECURSIVE HexToBytes(_)
HexToBytes(s) ==
    IF Len(s) < 2 THEN <<>>
    ELSE <<HexVal(s[1]) * 16 + HexVal(s[2])>> \o HexToBytes(SubSeq(s, 3, Len(s)))

\* v is the JSON string 0x + digits, all digits lowercase hex
IsHexString(v) ==
    /\ v.type = "String"
    /\ Len(v.str) >= 2
    /\ SubSeq(v.str, 1, 2) = S_0x
    /\ \A i \in 3..Len(v.str) : IsHexChar(v.str[i])

Digits(v) == SubSeq(v.str, 3, Len(v.str))

\* v is the quantity encoding of n: at least one digit, no leading zero but for 0
IsQuantityOf(v, n) ==
    /\ IsHexString(v)
    /\ Len(Digits(v)) >= 1
    /\ (Len(Digits(v)) > 1 => Digits(v)[1] # "0")
    /\ HexToNum(Digits(v)) = n

\* v is the data encoding of bytes: two digits per byte
IsDataOf(v, bytes) ==
    /\ IsHexString(v)
    /\ Len(Digits(v)) = 2 * Len(bytes)
    /\ HexToBytes(Digits(v)) = bytes

\* C7: with parameters that pass validation, an absent account or storage value
\* gives the success result null, and a present one gives the success result
\* that is its hex encoding (balance as quantity, code and stored bytes as data)
C7_AbsentIsNull ==
    (method \in Implemented /\ ValidationPasses) =>
        /\ clientCalls # <<>>
        /\ LET reply == clientCalls[1].answer IN
           /\ reply.tag = "None" => result = Ok(Null)
           /\ reply.tag = "Some" =>
                  /\ result.tag = "Ok"
                  /\ CASE method = "eth_getBalance" -> IsQuantityOf(result.value, reply.value.balance)
                       [] method = "eth_getCode" -> IsDataOf(result.value, reply.value.code)
                       [] method = "eth_getStorageAt" -> IsDataOf(result.value, reply.value)

\* eth_getBalance of 0x + 40 a at latest, no such account: null
C7_Witness ==
    /\ method = "eth_getBalance"
    /\ params = <<String(GoodAddress), String(S_latest)>>
    /\ clientCalls # <<>>
    /\ clientCalls[1].answer.tag = "None"
    /\ result = Ok(Null)

\* C8: every invocation of a handler ends in a success value or in one of the
\* error kinds InvalidParams, NotImplemented, InternalError; nothing else
C8_ThreeErrorKinds ==
    method \in Implemented \cup Stubs =>
        \/ result.tag = "Ok"
        \/ result.tag = "Err" /\ result.error.kind \in ErrorKinds

\* C9: the implemented handlers check the parameter shape, then the block
\* selector, then the address, then (eth_getStorageAt) the position, and return
\* the error of the first check that fails, unchanged
C9_CheckOrder ==
    method \in Implemented =>
        IF ~WellShaped THEN result = Err(invalid_params(SchemaOf(method)))
        ELSE
        LET key == validate_block_key(ReqBlock)
            address == validate_account_address(ReqAddress)
        IN  IF key.tag = "Err" THEN result = key
            ELSE IF address.tag = "Err" THEN result = address
            ELSE (/\ method = "eth_getStorageAt"
                  /\ address.tag = "Ok"
                  /\ validate_storage_address(ReqPosition).tag = "Err")
                     => result = validate_storage_address(ReqPosition)

\* eth_getStorageAt with a valid block, a wrong-length address and an invalid
\* position returned the address error
C9_Witness ==
    /\ method = "eth_getStorageAt"
    /\ WellShaped
    /\ validate_block_key(ReqBlock).tag = "Ok"
    /\ len(ReqAddress) # AddressLen
    /\ validate_storage_address(ReqPosition).tag = "Err"
    /\ result = validate_account_address(ReqAddress)
    /\ result # validate_storage_address(ReqPosition)

====
